---- MODULE Spec2Model ----
(***************************************************************************)
(* ACO sinkhole detection (src/aco_algorithm.py) over the Graph Provider   *)
(* interface of src/network.py.                                            *)
(*                                                                         *)
(* Numbers.  The suspiciousness score is an IEEE-754 double; a double is   *)
(* written <<k, e>>: the double nearest to k/10, moved e representable     *)
(* steps up (e > 0) or down (e < 0).  A delivery ratio is the quotient of  *)
(* two small integers and is kept as the pair <<num, den>>; comparing its  *)
(* double with the double of a two-digit decimal c/100 gives the same      *)
(* answer as comparing num * 100 with c * den, because rounding to nearest *)
(* is monotonic and num/den = c/100 rounds to the very double of c/100.    *)
(* A pheromone entry p is kept as the integer p * Scale; all the values    *)
(* the bounded runs produce are exact at that scale.                       *)
(***************************************************************************)
EXTENDS Integers, Sequences, FiniteSets, TLC

(* ------------------------------ bounds --------------------------------- *)
MaxAnts == 2
MaxIter == 2
MaxRuns == 2
MaxDetects == 2
MaxStart == 2
MaxFollowed == 2
MaxTraffic == 3
MaxColony == 15
MaxWalk == 4

(* ------------------------- program constants --------------------------- *)
Q == 100
PheromoneThreshold == 7
RecentWindow == 3
NeighborLimit == 6
RhoTenths == 1
ScenarioNodes == 10

RECURSIVE Pow10(_)
Pow10(k) == IF k = 0 THEN 1 ELSE 10 * Pow10(k - 1)

Max(a, b) == IF a >= b THEN a ELSE b

Range(s) == {s[i] : i \in 1..Len(s)}

(* ------------------------- Graph Provider ------------------------------ *)
\* WirelessSensorNetwork.get_node_behavior: the snapshot of a node's counters
GetNodeBehavior(node) ==
    [delivery_ratio   |-> <<node.packets_received, Max(node.packets_sent, 1)>>,
     packets_sent     |-> node.packets_sent,
     packets_received |-> node.packets_received]

\* SensorNode as the detection engine reads it: energy, neighbors and the
\* snapshot get_node_behavior returns for its counters
SensorNode(sent, received, energy, nbrs) ==
    [has_energy |-> TRUE, energy |-> energy, neighbors |-> nbrs,
     is_malicious |-> FALSE,
     behavior |-> GetNodeBehavior([packets_sent |-> sent,
                                   packets_received |-> received])]

\* A node of a Graph Provider that hands out the snapshot itself (the engine
\* reads only the dictionary and the node's energy and neighbors); the
\* energy attribute may be missing (hasattr).
ProvidedNode(ratio, sent, received, hasEnergy, energy, nbrs) ==
    [has_energy |-> hasEnergy, energy |-> energy, neighbors |-> nbrs,
     is_malicious |-> FALSE,
     behavior |-> [delivery_ratio |-> ratio, packets_sent |-> sent,
                   packets_received |-> received]]

\* delivery_ratio < c/100 on doubles
RatioBelow(ratio, c) == ratio[1] * 100 < c * ratio[2]

(* --------------------- suspiciousness heuristic ------------------------ *)
\* score += w/10 in IEEE-754 double arithmetic, round to nearest even, for
\* the sums the four weights can form in program order
FloatAdd(x, w) ==
    CASE x = <<0, 0>>             -> <<w, 0>>
      [] x = <<4, 0>>  /\ w = 3   -> <<7, 0>>
      [] x = <<4, 0>>  /\ w = 2   -> <<6, 1>>
      [] x = <<4, 0>>  /\ w = 1   -> <<5, 0>>
      [] x = <<3, 0>>  /\ w = 2   -> <<5, 0>>
      [] x = <<3, 0>>  /\ w = 1   -> <<4, 0>>
      [] x = <<2, 0>>  /\ w = 1   -> <<3, 1>>
      [] x = <<7, 0>>  /\ w = 2   -> <<9, -1>>
      [] x = <<7, 0>>  /\ w = 1   -> <<8, -1>>
      [] x = <<6, 1>>  /\ w = 1   -> <<7, 1>>
      [] x = <<5, 0>>  /\ w = 1   -> <<6, 0>>
      [] x = <<9, -1>> /\ w = 1   -> <<10, -1>>

\* x > k/10 on doubles
FloatGreater(x, k) == x[1] > k \/ (x[1] = k /\ x[2] > 0)

\* (mutant) the delivery-ratio comparisons are the wrong way round
SuspiciousnessScoreInverted(node) ==
    LET b  == node.behavior
        s1 == IF ~RatioBelow(b.delivery_ratio, 38)
              THEN FloatAdd(<<0, 0>>, 4) ELSE <<0, 0>>
        s2 == IF b.packets_sent > 35 /\ ~RatioBelow(b.delivery_ratio, 28)
              THEN FloatAdd(s1, 3) ELSE s1
        s3 == IF node.has_energy /\ node.energy < 40
              THEN FloatAdd(s2, 2) ELSE s2
    IN  IF Cardinality(node.neighbors) > NeighborLimit
        THEN FloatAdd(s3, 1) ELSE s3

\* (mutant) the traffic condition is packets_sent > 36
SuspiciousnessScoreOffByOne(node) ==
    LET b  == node.behavior
        s1 == IF RatioBelow(b.delivery_ratio, 38)
              THEN FloatAdd(<<0, 0>>, 4) ELSE <<0, 0>>
        s2 == IF b.packets_sent > 36 /\ RatioBelow(b.delivery_ratio, 28)
              THEN FloatAdd(s1, 3) ELSE s1
        s3 == IF node.has_energy /\ node.energy < 40
              THEN FloatAdd(s2, 2) ELSE s2
    IN  IF Cardinality(node.neighbors) > NeighborLimit
        THEN FloatAdd(s3, 1) ELSE s3

SuspiciousnessScore(node) ==
    LET b  == node.behavior
        s1 == IF RatioBelow(b.delivery_ratio, 38)
              THEN FloatAdd(<<0, 0>>, 4) ELSE <<0, 0>>
        s2 == IF b.packets_sent > 35 /\ RatioBelow(b.delivery_ratio, 28)
              THEN FloatAdd(s1, 3) ELSE s1
        s3 == IF node.has_energy /\ node.energy < 40
              THEN FloatAdd(s2, 2) ELSE s2
    IN  IF Cardinality(node.neighbors) > NeighborLimit
        THEN FloatAdd(s3, 1) ELSE s3

IsSuspicious(node) == FloatGreater(SuspiciousnessScore(node), 7)

(* ----------------------------- networks -------------------------------- *)
\* an injected sinkhole after traffic: many packets sent, few received, low energy
Sinkhole(nbrs) == [SensorNode(100, 5, 20, nbrs) EXCEPT !.is_malicious = TRUE]

\* a node with a delivery ratio of 0.35, little traffic and low energy
LowDelivery(nbrs) == SensorNode(20, 7, 30, nbrs)

\* an ordinary node: delivery ratio 0.9, energy 90
Healthy(nbrs) == SensorNode(40, 36, 90, nbrs)

\* a node reported with deliveryRatio = 0.95 and packetsSent = 10
WellBehaved(hasEnergy, energy, nbrs) ==
    ProvidedNode(<<95, 100>>, 10, 9, hasEnergy, energy, nbrs)

Designated(nbrs) ==
    {Sinkhole(nbrs), LowDelivery(nbrs), WellBehaved(TRUE, 20, nbrs),
     WellBehaved(TRUE, 90, nbrs), WellBehaved(FALSE, 0, nbrs)}

\* two nodes, in range of each other or not (_create_network links i and j
\* symmetrically, never a node to itself)
TwoNodeNetworks ==
    {[i \in 0..1 |-> IF i = 0 THEN p0 ELSE p1] :
        <<p0, p1>> \in UNION {Designated(n0) \X {Healthy(n1), Sinkhole(n1)} :
                              <<n0, n1>> \in {<<{}, {}>>, <<{1}, {0}>>}}}

\* a hub (node 0) with more than NeighborLimit neighbors, each linked to it alone
StarNetwork(hub) ==
    [i \in 0..(NeighborLimit + 1) |-> IF i = 0 THEN hub ELSE Healthy({0})]

Hub == 1..(NeighborLimit + 1)

\* the runs explored, each a network with a colony size (num_ants): the small
\* networks with every colony size, the stars with one ant, and the star
\* whose hub only the neighbor count makes suspicious with two
Configurations ==
    (TwoNodeNetworks \X (1..MaxAnts))
    \cup ({StarNetwork(hub) : hub \in Designated(Hub)} \X {1})
    \cup {<<StarNetwork(LowDelivery(Hub)), 2>>}

(* ------------------------------- state --------------------------------- *)
VARIABLES
    nodes,             \* network.nodes: node id -> node
    num_ants,          \* self.num_ants
    ants,              \* self.ants: sequence of Ant
    pheromone_matrix,  \* self.pheromone_matrix, entries times Scale
    detected_attacks,  \* self.detected_attacks
    pc,                \* position in run_aco: idle, move, update, detect, done
    iterations,        \* run_aco's argument
    iteration,         \* run_aco's loop variable
    ant_index,         \* how many ants the inner for loop has moved
    runs,              \* calls of run_aco so far
    used,              \* iterations asked for so far, over all runs
    moves,             \* calls of ant_movement per ant in the current run
    updates,           \* calls of update_pheromones in the current run
    detect_calls,      \* calls of detect_attacks since the current run began
    rho,               \* self.rho, in tenths
    budget,            \* iterations the caller asks for at most, over all runs
    net_pc,            \* position in the network's life: create, inject,
                       \* traffic (simulate_traffic may run or runs), ready
    traffic            \* simulate_traffic's loop counter

vars == <<nodes, num_ants, ants, pheromone_matrix, detected_attacks, pc,
          iterations, iteration, ant_index, runs, used, moves, updates,
          detect_calls, rho, budget, net_pc, traffic>>

\* the variables of the network's life, which the engine leaves alone
simulation == <<net_pc, traffic>>

\* one pheromone unit: an entry that starts at 0.5 and is multiplied by
\* (10 - rho) / 10 at most budget times is an integer at this scale
Scale == 2 * Pow10(budget)

\* np.ones(...) * 0.5
InitialPheromone == Scale \div 2

NodeIds == DOMAIN nodes
num_nodes == Cardinality(NodeIds)

\* Ant(current_node=start_node) with __post_init__
Ant(start) ==
    [current_node |-> start, visited_nodes |-> <<>>, suspicious_nodes |-> <<>>]

\* ACOAlgorithm.__init__ on the network of a configuration
Constructed ==
    /\ ants = <<>>
    /\ pheromone_matrix = [u \in NodeIds |-> [v \in NodeIds |-> InitialPheromone]]
    /\ detected_attacks = <<>>
    /\ pc = "idle"
    /\ iterations = 0
    /\ iteration = 0
    /\ ant_index = 0
    /\ runs = 0
    /\ used = 0
    /\ moves = [a \in 1..num_ants |-> 0]
    /\ updates = 0
    /\ detect_calls = 0

\* the network has been built and its traffic simulated (main.py)
Simulated ==
    /\ net_pc = "ready"
    /\ traffic = 0

Init ==
    /\ \E c \in Configurations : nodes = c[1] /\ num_ants = c[2]
    /\ Simulated
    /\ rho = RhoTenths
    /\ budget = MaxIter
    /\ Constructed

(* ---------------------- nodes that deliver nothing ---------------------- *)
\* nodes with a delivery ratio of 0.0: packets sent around the limit of 35
\* and far above it, none received, energy below, at and above 40 or not
\* reported at all
SilentNodes(nbrs) ==
    {SensorNode(sent, 0, energy, nbrs) :
        <<sent, energy>> \in {35, 36, 100} \X {20, 40, 90}}
    \cup {ProvidedNode(<<0, 1>>, sent, 0, FALSE, 0, nbrs) : sent \in {35, 36, 100}}

\* such a node alone, with one neighbor, and with more than NeighborLimit
\* neighbors, under every colony size
SilentConfigurations ==
    ({[i \in 0..0 |-> p] : p \in SilentNodes({})} \X (1..MaxAnts))
    \cup ({[i \in 0..1 |-> IF i = 0 THEN p ELSE Healthy({0})] :
              p \in SilentNodes({1})} \X (1..MaxAnts))
    \cup ({StarNetwork(p) : p \in SilentNodes(Hub)} \X {1})

SilentInit ==
    /\ \E c \in SilentConfigurations : nodes = c[1] /\ num_ants = c[2]
    /\ Simulated
    /\ rho = RhoTenths
    /\ budget = MaxIter
    /\ Constructed

(* --------------------------- large colonies ---------------------------- *)
\* colonies of every size up to MaxColony on a network of one node, a
\* sinkhole or an ordinary node
ColonyInit ==
    /\ nodes \in {[i \in 0..0 |-> p] : p \in {Sinkhole({}), Healthy({})}}
    /\ Simulated
    /\ num_ants \in 1..MaxColony
    /\ rho = RhoTenths
    /\ budget = MaxIter
    /\ Constructed

(* -------------------------- evaporation rates -------------------------- *)
\* self.rho set to 0.1, 0.2, ... 0.9 on networks of ordinary nodes, where
\* nothing is ever deposited, and on one with a sinkhole
EvaporationInit ==
    /\ nodes \in {[i \in 0..0 |-> Healthy({})],
                  [i \in 0..1 |-> Healthy({1 - i})],
                  [i \in 0..1 |-> IF i = 0 THEN Sinkhole({1}) ELSE Healthy({0})]}
    /\ Simulated
    /\ num_ants \in 1..MaxAnts
    /\ rho \in 1..9
    /\ budget = MaxIter
    /\ Constructed

(* ----------------------------- long walks ------------------------------ *)
\* networks without a suspicious node for walks of up to MaxWalk steps: four
\* nodes all in range of each other (one with a low delivery ratio, which
\* draws the ants), three in a line, and a pair
WalkNetworks ==
    {[i \in 0..3 |-> IF i = 0 THEN LowDelivery(1..3) ELSE Healthy((0..3) \ {i})],
     [i \in 0..2 |-> Healthy({j \in 0..2 : j - i \in {-1, 1}})],
     [i \in 0..1 |-> Healthy({1 - i})]}

WalkInit ==
    /\ nodes \in WalkNetworks
    /\ Simulated
    /\ num_ants = 1
    /\ rho = RhoTenths
    /\ budget = MaxWalk
    /\ Constructed

(* ------------------------ end-to-end scenario -------------------------- *)
\* the node of the scenario: deliveryRatio = 0.1, packetsSent = 100,
\* packetsReceived = 5, energy = 20
ScenarioNode(nbrs) == ProvidedNode(<<10, 100>>, 100, 5, TRUE, 20, nbrs)

\* a fully connected network of k nodes, node 0 the designated one
CompleteNetwork(k) ==
    [i \in 0..(k - 1) |-> IF i = 0 THEN ScenarioNode(1..(k - 1))
                          ELSE Healthy((0..(k - 1)) \ {i})]

\* the scenario with the smallest colony and the shortest run in which the
\* vote threshold can be met
ScenarioInit ==
    /\ nodes = CompleteNetwork(ScenarioNodes)
    /\ Simulated
    /\ num_ants = 2
    /\ rho = RhoTenths
    /\ budget = 2
    /\ Constructed

(* ------------------------------ run_aco -------------------------------- *)
\* (mutant) the loop stops as soon as some ant holds a suspicious node
OuterLoopUntilFound(done, n) ==
    IF done < n /\ \A a \in 1..Len(ants) : ants[a].suspicious_nodes = <<>>
    THEN "move" ELSE "detect"

\* for iteration in range(iterations): another pass, or on to detect_attacks
OuterLoop(done, n) == IF done < n THEN "move" ELSE "detect"

\* (mutant) update_pheromones is called inside the loop over the ants
InnerLoopUpdatesPerAnt(moved) == "update"

\* for ant in self.ants: the next ant, or on to update_pheromones
InnerLoop(moved) == IF moved < num_ants THEN "move" ELSE "update"

\* the start nodes random.randint(0, num_nodes - 1) is let to draw: the
\* ids up to MaxStart (all of a small network; the hub and some of the
\* leaves of a star, whose leaves are alike)
StartNodes == {n \in NodeIds : n <= MaxStart}

\* create_ant_colony: every ant fresh, at a node drawn by random.randint
Colonies ==
    {[a \in 1..num_ants |-> Ant(start[a])] : start \in [1..num_ants -> StartNodes]}

\* run_aco up to the first pass of its loop. The pheromone matrix is the one
\* __init__ built or an earlier run left: run_aco does not touch it here.
RunAco(n) ==
    /\ pc \in {"idle", "done"}
    /\ runs < MaxRuns
    /\ used + n <= budget
    /\ ants' \in Colonies
    /\ iterations' = n
    /\ iteration' = 0
    /\ ant_index' = 0
    /\ pc' = OuterLoop(0, n)
    /\ runs' = runs + 1
    /\ used' = used + n
    /\ moves' = [a \in 1..num_ants |-> 0]
    /\ updates' = 0
    /\ detect_calls' = 0
    /\ UNCHANGED <<simulation, nodes, num_ants, rho, budget, pheromone_matrix, detected_attacks>>

(* ---------------------------- ant_movement ----------------------------- *)
\* (mutant) every node of the trail is excluded
RecentIsWholeTrail(visited) == Range(visited)

\* ant.visited_nodes[-3:]
Recent(visited) ==
    {visited[i] : i \in Max(1, Len(visited) - RecentWindow + 1)..Len(visited)}

\* (mutant) every node outside the window is a candidate, linked or not
AvailableAnywhere(current, visited) ==
    {n \in NodeIds : n \notin Recent(visited)}

AvailableNodes(current, visited) ==
    {n \in nodes[current].neighbors : n \notin Recent(visited)}

\* heuristic ** beta, in units of (1 / 1.1) ** 2: doubled heuristic, squared
HeuristicSquared(n) ==
    IF RatioBelow(nodes[n].behavior.delivery_ratio, 40) THEN 4 ELSE 1

\* (pheromone ** alpha) * (heuristic ** beta), alpha = 1
Probability(current, n) == pheromone_matrix[current][n] * HeuristicSquared(n)

\* sum(probabilities), over the available nodes with an id below k
RECURSIVE SumProbabilities(_, _, _)
SumProbabilities(current, available, k) ==
    IF k = 0 THEN 0
    ELSE (IF (k - 1) \in available THEN Probability(current, k - 1) ELSE 0)
         + SumProbabilities(current, available, k - 1)

\* the nodes np.random.choice can return, or the current node when the ant stays
NextNodes(current, visited) ==
    LET available == AvailableNodes(current, visited)
    IN  IF available # {} /\ SumProbabilities(current, available, num_nodes) > 0
        THEN {n \in available : Probability(current, n) > 0}
        ELSE {current}

\* the ant after the evaluation of its current node, before it moves
Evaluated(ant) ==
    [ant EXCEPT
        !.visited_nodes = Append(@, ant.current_node),
        !.suspicious_nodes = IF IsSuspicious(nodes[ant.current_node])
                             THEN Append(@, ant.current_node) ELSE @]

AntMovement ==
    /\ pc = "move"
    /\ \E e \in {Evaluated(ants[ant_index + 1])} :
          \E next \in NextNodes(e.current_node, e.visited_nodes) :
              ants' = [ants EXCEPT ![ant_index + 1] =
                                        [e EXCEPT !.current_node = next]]
    /\ moves' = [moves EXCEPT ![ant_index + 1] = @ + 1]
    /\ ant_index' = ant_index + 1
    /\ pc' = InnerLoop(ant_index + 1)
    /\ UNCHANGED <<simulation, nodes, num_ants, rho, budget, pheromone_matrix, detected_attacks,
                   iterations, iteration, runs, used, updates, detect_calls>>

(* -------------------------- update_pheromones -------------------------- *)
\* (mutant) entry -= (1 - rho)
EvaporateBySubtraction(p) == p - (10 - rho) * (Scale \div 10)

\* (mutant) entry *= rho
EvaporateToRho(p) == (p * rho) \div 10

\* entry *= (1 - rho)
Evaporate(p) == (p * (10 - rho)) \div 10

\* pheromone_amount = Q * len(ant.suspicious_nodes)
PheromoneAmount(ant) == Q * Len(ant.suspicious_nodes) * Scale

\* how often the trail loop adds pheromone_amount to entry [u][v]
PathDeposits(ant, u, v) ==
    Cardinality({i \in 1..(Len(ant.visited_nodes) - 1) :
                    /\ ant.visited_nodes[i] = u
                    /\ ant.visited_nodes[i + 1] = v
                    /\ v \in Range(ant.suspicious_nodes)})

\* (mutant) the neighbor loop reinforces the link in both directions
NeighborDepositsBothWays(ant, u, v) ==
    IF v \in nodes[u].neighbors
    THEN Cardinality({j \in 1..Len(ant.suspicious_nodes) :
                         ant.suspicious_nodes[j] \in {u, v}})
    ELSE 0

\* how often the neighbor loop adds pheromone_amount * 0.5 to entry [u][v]
NeighborDeposits(ant, u, v) ==
    IF v \in nodes[u].neighbors
    THEN Cardinality({j \in 1..Len(ant.suspicious_nodes) :
                         ant.suspicious_nodes[j] = u})
    ELSE 0

\* (mutant) the neighbor loop is left out
DepositOnTrailOnly(ant, u, v) ==
    IF ant.suspicious_nodes # <<>>
    THEN PheromoneAmount(ant) * PathDeposits(ant, u, v)
    ELSE 0

\* what one ant deposits on entry [u][v]
Deposit(ant, u, v) ==
    IF ant.suspicious_nodes # <<>>
    THEN PheromoneAmount(ant) * PathDeposits(ant, u, v)
         + (PheromoneAmount(ant) \div 2) * NeighborDeposits(ant, u, v)
    ELSE 0

RECURSIVE Deposition(_, _, _)
Deposition(k, u, v) ==
    IF k = 0 THEN 0 ELSE Deposition(k - 1, u, v) + Deposit(ants[k], u, v)

UpdatePheromones ==
    /\ pc = "update"
    /\ pheromone_matrix' =
          [u \in NodeIds |-> [v \in NodeIds |->
              Evaporate(pheromone_matrix[u][v]) + Deposition(Len(ants), u, v)]]
    /\ updates' = updates + 1
    /\ iteration' = iteration + 1
    /\ ant_index' = 0
    /\ pc' = OuterLoop(iteration + 1, iterations)
    /\ UNCHANGED <<simulation, nodes, num_ants, rho, budget, ants, detected_attacks, iterations, runs,
                   used, moves, detect_calls>>

(* --------------------------- detect_attacks ---------------------------- *)
\* all_suspicious after the lists of the first k ants were appended
RECURSIVE AllSuspicious(_)
AllSuspicious(k) ==
    IF k = 0 THEN <<>> ELSE AllSuspicious(k - 1) \o ants[k].suspicious_nodes

\* the keys of vote_count after the first i entries of all_suspicious, in
\* insertion order: an entry makes a key when it is met for the first time
RECURSIVE VoteKeys(_, _)
VoteKeys(all, i) ==
    IF i = 0 THEN <<>>
    ELSE IF all[i] \in {all[j] : j \in 1..(i - 1)}
         THEN VoteKeys(all, i - 1)
         ELSE Append(VoteKeys(all, i - 1), all[i])

\* vote_count: one is added to a key's count for every entry that names it
VoteCount(all) ==
    [keys  |-> VoteKeys(all, Len(all)),
     votes |-> [k \in 1..Len(VoteKeys(all, Len(all))) |->
                  Cardinality({i \in 1..Len(all) :
                                  all[i] = VoteKeys(all, Len(all))[k]})]]

\* (mutant) a tenth of the colony in place of a fifth
VoteThresholdOfTenth == Max(2, Len(ants) \div 10)

\* max(2, len(self.ants) // 5)
VoteThreshold == Max(2, Len(ants) \div 5)

\* np.max(self.pheromone_matrix[node_id])
MaxPheromone(n) ==
    CHOOSE m \in {pheromone_matrix[n][v] : v \in NodeIds} :
        \A v \in NodeIds : m >= pheromone_matrix[n][v]

\* packets_received < packets_sent * 0.3 on doubles: both sides are small
\* integers times the double 0.3, which decides as 10 * received < 3 * sent
BehaviorScore(b) ==
    (IF RatioBelow(b.delivery_ratio, 40) THEN 1 ELSE 0)
    + (IF b.packets_sent > 30 THEN 1 ELSE 0)
    + (IF b.packets_received * 10 < b.packets_sent * 3 THEN 1 ELSE 0)

\* (mutant) the vote count has to exceed the threshold
AcceptedAboveThreshold(n, votes) ==
    /\ votes > VoteThreshold
    /\ MaxPheromone(n) >= PheromoneThreshold * Scale
    /\ BehaviorScore(nodes[n].behavior) >= 2

\* (mutant) the behaviorScore condition is left out
AcceptedWithoutBehavior(n, votes) ==
    /\ votes >= VoteThreshold
    /\ MaxPheromone(n) >= PheromoneThreshold * Scale

\* the condition under which node_id is appended to detected_attacks
Accepted(n, votes) ==
    /\ votes >= VoteThreshold
    /\ MaxPheromone(n) >= PheromoneThreshold * Scale
    /\ BehaviorScore(nodes[n].behavior) >= 2

\* (mutant) the list of the previous call is kept
KeepDetected(previous) == previous

\* self.detected_attacks = []
ResetDetected(previous) == <<>>

\* (mutant) the vote count is appended in place of the node id
AppendedVotes(node_id, votes) == votes

\* self.detected_attacks.append(node_id)
AppendedEntry(node_id, votes) == node_id

\* the list detect_attacks leaves in self.detected_attacks and returns
Detected(previous) ==
    LET all == AllSuspicious(Len(ants))
        d   == VoteCount(all)
        RECURSIVE Collect(_)
        Collect(k) ==
            IF k = 0 THEN ResetDetected(previous)
            ELSE IF Accepted(d.keys[k], d.votes[k])
                 THEN Append(Collect(k - 1), AppendedEntry(d.keys[k], d.votes[k]))
                 ELSE Collect(k - 1)
    IN  Collect(Len(d.keys))

\* the call of detect_attacks that ends run_aco
DetectAttacks ==
    /\ pc = "detect"
    /\ detected_attacks' = Detected(detected_attacks)
    /\ detect_calls' = detect_calls + 1
    /\ pc' = "done"
    /\ UNCHANGED <<simulation, nodes, num_ants, rho, budget, ants, pheromone_matrix, iterations,
                   iteration, ant_index, runs, used, moves, updates>>

\* a further call of detect_attacks by the caller, on the state a run left
DetectAgain ==
    /\ pc = "done"
    /\ detect_calls < MaxDetects
    /\ detected_attacks' = Detected(detected_attacks)
    /\ detect_calls' = detect_calls + 1
    /\ UNCHANGED <<simulation, nodes, num_ants, rho, budget, ants, pheromone_matrix, pc, iterations,
                   iteration, ant_index, runs, used, moves, updates>>

(* ------------------ WirelessSensorNetwork (network.py) ----------------- *)
\* The network has any number of nodes (from 10 on random.sample cannot
\* fail); the model follows the first MaxFollowed of them. Two more ids
\* stand for all the nodes that are not followed: what happens to those
\* leaves the followed nodes as they are.
Followed == 0..(MaxFollowed - 1)

Population == 0..(MaxFollowed + 1)

\* the variables of the engine other than the network it reads
engine == <<num_ants, ants, pheromone_matrix, detected_attacks, pc, iterations,
            iteration, ant_index, runs, used, moves, updates, detect_calls,
            rho, budget>>

\* no ACOAlgorithm object exists yet
NoEngine ==
    /\ num_ants = 0
    /\ ants = <<>>
    /\ pheromone_matrix = <<>>
    /\ detected_attacks = <<>>
    /\ pc = "idle"
    /\ iterations = 0
    /\ iteration = 0
    /\ ant_index = 0
    /\ runs = 0
    /\ used = 0
    /\ moves = <<>>
    /\ updates = 0
    /\ detect_calls = 0
    /\ rho = RhoTenths
    /\ budget = 0

\* WirelessSensorNetwork.__init__ up to the call of _create_network
NetworkInit ==
    /\ nodes = <<>>
    /\ net_pc = "create"
    /\ traffic = 0
    /\ NoEngine

\* the node with its counters set
WithPackets(node, sent, received) ==
    [node EXCEPT !.behavior = GetNodeBehavior([packets_sent |-> sent,
                                               packets_received |-> received])]

\* self.sinkhole_nodes, the nodes with is_malicious set
SinkholeNodes == {i \in NodeIds : nodes[i].is_malicious}

\* _create_network: energy drawn from [80, 100], nodes linked both ways
\* where their drawn positions are in range of each other
CreateNetwork ==
    /\ net_pc = "create"
    /\ \E energy \in [Followed -> {80, 100}] :
          \E links \in SUBSET {l \in Followed \X Followed : l[1] < l[2]} :
              nodes' = [i \in Followed |->
                          SensorNode(0, 0, energy[i],
                                     {j \in Followed : <<i, j>> \in links
                                                       \/ <<j, i>> \in links})]
    /\ net_pc' = "inject"
    /\ UNCHANGED <<engine, traffic>>

\* _inject_sinkhole_attacks: the sampled nodes get packets_sent from
\* [80, 120], packets_received from [5, 25] and energy from [20, 40]
InjectSinkholeAttacks ==
    /\ net_pc = "inject"
    /\ \E chosen \in SUBSET Followed :
          \E sent \in [chosen -> {80, 120}] :
          \E received \in [chosen -> {5, 25}] :
          \E energy \in [chosen -> {20, 40}] :
              nodes' = [i \in Followed |->
                          IF i \in chosen
                          THEN [WithPackets(nodes[i], sent[i], received[i])
                                   EXCEPT !.is_malicious = TRUE,
                                          !.energy = energy[i]]
                          ELSE nodes[i]]
    /\ net_pc' = "traffic"
    /\ UNCHANGED <<engine, traffic>>

\* the outcomes of random.random() < 0.45 (malicious source) or < 0.85
Delivered(source) == BOOLEAN

\* one pass of simulate_traffic's loop
SimulateTraffic ==
    /\ net_pc = "traffic"
    /\ traffic < MaxTraffic
    /\ \E source \in Population : \E destination \in Population :
          \E delivered \in Delivered(source) :
              nodes' =
                 IF source # destination
                 THEN [i \in Followed |->
                         LET b == nodes[i].behavior
                         IN  WithPackets(nodes[i],
                                 b.packets_sent + (IF i = source THEN 1 ELSE 0),
                                 b.packets_received
                                    + (IF i = destination /\ delivered
                                       THEN 1 ELSE 0))]
                 ELSE nodes
    /\ traffic' = traffic + 1
    /\ UNCHANGED <<engine, net_pc>>

\* the end of simulate_traffic: extra packets, from [20, 50], for every
\* sinkhole node
FinishTraffic ==
    /\ net_pc = "traffic"
    /\ traffic = MaxTraffic
    /\ \E extra_packets \in [SinkholeNodes -> {20, 50}] :
          nodes' = [i \in Followed |->
                      IF i \in SinkholeNodes
                      THEN LET b == nodes[i].behavior
                           IN  WithPackets(nodes[i],
                                           b.packets_sent + extra_packets[i],
                                           b.packets_received)
                      ELSE nodes[i]]
    /\ net_pc' = "ready"
    /\ UNCHANGED <<engine, traffic>>

NetworkNext ==
    \/ CreateNetwork
    \/ InjectSinkholeAttacks
    \/ SimulateTraffic
    \/ FinishTraffic

Next ==
    \/ \E n \in 0..budget : RunAco(n)
    \/ AntMovement
    \/ UpdatePheromones
    \/ DetectAttacks
    \/ DetectAgain

Spec == Init /\ [][Next]_vars

\* the life of a network up to the return of simulate_traffic
NetworkSpec == NetworkInit /\ [][NetworkNext]_vars

\* runs under every evaporation rate
EvaporationSpec == EvaporationInit /\ [][Next]_vars

\* runs long enough for an ant to come back to a node
WalkSpec == WalkInit /\ [][Next]_vars

\* runs of colonies of every size
ColonySpec == ColonyInit /\ [][Next]_vars

\* runs over nodes that deliver nothing
SilentSpec == SilentInit /\ [][Next]_vars

\* the end-to-end scenario: one run of the full length
ScenarioNext ==
    \/ RunAco(budget)
    \/ AntMovement
    \/ UpdatePheromones
    \/ DetectAttacks
    \/ DetectAgain

ScenarioSpec == ScenarioInit /\ [][ScenarioNext]_vars

\* run_aco is synchronous: once called it runs to its return
FairSpec == Spec /\ WF_vars(AntMovement \/ UpdatePheromones \/ DetectAttacks)

(* ----------------------- notions used by the claims -------------------- *)
\* entries of the agents' suspicious lists that name node n
Flaggings(n) ==
    {<<a, j>> \in (1..Len(ants)) \X (1..(budget + 1)) :
        j <= Len(ants[a].suspicious_nodes) /\ ants[a].suspicious_nodes[j] = n}

\* agents that flagged node n at least once
FlaggingAgents(n) ==
    {a \in 1..Len(ants) : n \in Range(ants[a].suspicious_nodes)}

\* the value vote_count holds for node n when detect_attacks has tallied
VoteTally(n) ==
    LET all == AllSuspicious(Len(ants))
        d   == VoteCount(all)
    IN  IF n \in Range(d.keys)
        THEN d.votes[CHOOSE k \in 1..Len(d.keys) : d.keys[k] = n]
        ELSE 0

\* the three conditions of the consensus rule, stated on the node
EnoughVotes(n) ==
    LET quorum == IF num_ants \div 5 > 2 THEN num_ants \div 5 ELSE 2
    IN  Cardinality(Flaggings(n)) >= quorum

EnoughPheromone(n) ==
    \E v \in NodeIds : pheromone_matrix[n][v] >= 7 * Scale

EnoughBehavior(n) ==
    LET b    == nodes[n].behavior
        low  == b.delivery_ratio[1] * 10 < 4 * b.delivery_ratio[2]
        busy == b.packets_sent > 30
        few  == 10 * b.packets_received < 3 * b.packets_sent
    IN  (low /\ busy) \/ (low /\ few) \/ (busy /\ few)

\* run_aco has returned and nothing has run since
AtDetectionTime == pc = "done"

(* -------------------------------- C1 ----------------------------------- *)
\* C1: when detect_attacks has returned, a node is in the returned list
\* exactly when it has a vote and its vote count (the entries naming it in
\* the agents' suspicious lists) is >= max(2, numAgents // 5), the maximum
\* of its pheromone row is >= 7.0 and its behaviorScore is >= 2.
C1_ConsensusRule ==
    AtDetectionTime =>
        \A n \in NodeIds :
            n \in Range(detected_attacks)
            <=> /\ Flaggings(n) # {}
                /\ EnoughVotes(n)
                /\ EnoughPheromone(n)
                /\ EnoughBehavior(n)

\* a run returned a node whose vote count just meets the threshold
C1_Witness ==
    /\ AtDetectionTime
    /\ \E n \in Range(detected_attacks) : Cardinality(Flaggings(n)) = 2

(* -------------------------------- C2 ----------------------------------- *)
\* C2: at detection time the vote tally of every node equals the number of
\* distinct agents that flagged it at least once.
C2_TallyCountsDistinctAgents ==
    AtDetectionTime =>
        \A n \in NodeIds : VoteTally(n) = Cardinality(FlaggingAgents(n))

(* -------------------------------- C3 ----------------------------------- *)
\* C3: with numAgents = 1 every run returns an empty Detected-Attack Set.
C3_SingleAgentDetectsNothing ==
    (AtDetectionTime /\ num_ants = 1) => detected_attacks = <<>>

(* -------------------------------- C4 ----------------------------------- *)
\* run_aco has just been entered: the colony exists, no ant has moved
AtRunStart ==
    /\ pc \in {"move", "detect"}
    /\ updates = 0
    /\ \A a \in 1..num_ants : moves[a] = 0

\* C4: at the start of every invocation of run, the first and the later
\* ones, every pheromone entry is 0.5 and every agent has an empty trail and
\* an empty suspicious list.
C4_EveryRunStartsFresh ==
    AtRunStart =>
        /\ \A u \in NodeIds : \A v \in NodeIds :
              2 * pheromone_matrix[u][v] = Scale
        /\ \A a \in 1..Len(ants) :
              ants[a].visited_nodes = <<>> /\ ants[a].suspicious_nodes = <<>>

(* -------------------------------- C5 ----------------------------------- *)
\* C5: the matrix changes only in an update; an agent that makes its move
\* number k + 1 of the run does so after exactly k updates, so it reads the
\* matrix the update of the previous iteration produced (the initial one for
\* k = 0); and an update happens only when every agent has moved exactly
\* once since the update before it.
C5_MoveThenUpdate ==
    [][ /\ (pheromone_matrix' # pheromone_matrix) => (updates' = updates + 1)
        /\ \A a \in 1..num_ants :
              (moves'[a] = moves[a] + 1) =>
                  (moves[a] = updates /\ pheromone_matrix' = pheromone_matrix)
        /\ (updates' = updates + 1) =>
              \A a \in 1..num_ants : moves[a] = updates + 1 ]_vars

\* the second agent is about to move in the second iteration
C5_Witness ==
    /\ pc = "move"
    /\ num_ants = 2
    /\ updates = 1
    /\ moves = <<2, 1>>

(* -------------------------------- C6 ----------------------------------- *)
Running == pc \in {"move", "update", "detect"}

\* C6: run(iterations = N) returns only after exactly N updates, every
\* agent having moved exactly N times, with exactly one call of the
\* Consensus Detector; and a run that has been started returns.
C6_FullLengthRun ==
    /\ [][ (pc # "done" /\ pc' = "done") =>
              /\ updates = iterations
              /\ \A a \in 1..num_ants : moves[a] = iterations
              /\ detect_calls = 0 /\ detect_calls' = 1 ]_vars
    /\ (Running ~> (pc = "done"))

\* a run of full length has returned although an agent had flagged a node
\* in its first iteration
C6_Witness ==
    /\ pc = "done"
    /\ iterations = MaxIter
    /\ updates = MaxIter
    /\ \E a \in 1..num_ants : Len(ants[a].suspicious_nodes) = MaxIter

(* -------------------------------- C7 ----------------------------------- *)
\* C7: every entry of the pheromone matrix is non-negative in every
\* reachable state, and so is what evaporation makes of it.
C7_PheromoneNonNegative ==
    \A u \in NodeIds : \A v \in NodeIds :
        pheromone_matrix[u][v] >= 0 /\ Evaporate(pheromone_matrix[u][v]) >= 0

\* after an update one entry has been reinforced and another only evaporated
C7_Witness ==
    /\ updates >= 1
    /\ \E u \in NodeIds : \E v \in NodeIds :
          pheromone_matrix[u][v] > InitialPheromone
    /\ \E u \in NodeIds : \E v \in NodeIds :
          pheromone_matrix[u][v] < InitialPheromone

(* -------------------------------- C8 ----------------------------------- *)
\* C8: the Detected-Attack Set is a subset of the node ids 0 .. nodeCount - 1.
C8_DetectedAreNodeIds ==
    \A k \in 1..Len(detected_attacks) :
        detected_attacks[k] >= 0 /\ detected_attacks[k] < num_nodes

\* the node with the largest id has been detected
C8_Witness ==
    /\ pc = "done"
    /\ (num_nodes - 1) \in Range(detected_attacks)

(* -------------------------------- C9 ----------------------------------- *)
\* C9: a call of detect_attacks on the state a run left returns the list
\* the run returned, and changes neither the agents nor the matrix.
C9_DetectorIdempotent ==
    [][ (pc = "done" /\ pc' = "done" /\ detect_calls' = detect_calls + 1) =>
            /\ detected_attacks' = detected_attacks
            /\ ants' = ants
            /\ pheromone_matrix' = pheromone_matrix ]_vars

\* the detector has been called again on a state with a detected node
C9_Witness ==
    /\ pc = "done"
    /\ detect_calls = 2
    /\ detected_attacks # <<>>

(* -------------------------------- C10 ---------------------------------- *)
\* a node reported with deliveryRatio = 0.95 and packetsSent = 10
IsWellBehaved(n) ==
    /\ nodes[n].behavior.delivery_ratio = <<95, 100>>
    /\ nodes[n].behavior.packets_sent = 10

\* C10: a node with deliveryRatio = 0.95 and packetsSent = 10 is in no
\* agent's suspicious list, whatever its energy and neighbor count.
C10_WellBehavedNeverFlagged ==
    \A a \in 1..Len(ants) : \A n \in Range(ants[a].suspicious_nodes) :
        ~IsWellBehaved(n)

\* an agent has evaluated such a node that has low energy and more than
\* six neighbors
C10_Witness ==
    \E a \in 1..Len(ants) : \E n \in Range(ants[a].visited_nodes) :
        /\ IsWellBehaved(n)
        /\ nodes[n].has_energy /\ nodes[n].energy < 40
        /\ Cardinality(nodes[n].neighbors) > NeighborLimit

(* -------------------------------- C11 ---------------------------------- *)
\* the designated node of the end-to-end scenario
IsScenarioNode(n) ==
    /\ nodes[n].behavior = [delivery_ratio |-> <<10, 100>>, packets_sent |-> 100,
                            packets_received |-> 5]
    /\ nodes[n].has_energy /\ nodes[n].energy = 20
    /\ Cardinality(nodes[n].neighbors) = num_nodes - 1

\* agents that evaluated node n at least once
EvaluatingAgents(n) ==
    {a \in 1..Len(ants) : n \in Range(ants[a].visited_nodes)}

EveryEvaluationFlags(n) ==
    \A a \in EvaluatingAgents(n) : n \in Range(ants[a].suspicious_nodes)

\* C11 as stated: in the end-to-end scenario every agent that evaluates the
\* designated node flags it, and the Detected-Attack Set the run returns
\* includes that node.
C11_ScenarioDetects ==
    \A n \in NodeIds :
        IsScenarioNode(n) =>
            /\ EveryEvaluationFlags(n)
            /\ AtDetectionTime => n \in Range(detected_attacks)

\* C11 (amended): in the end-to-end scenario every agent that evaluates the
\* designated node flags it, and the Detected-Attack Set the run returns
\* includes that node whenever at least two agents evaluated it.
C11_ScenarioDetectsWhenEvaluatedTwice ==
    \A n \in NodeIds :
        IsScenarioNode(n) =>
            /\ EveryEvaluationFlags(n)
            /\ (AtDetectionTime /\ Cardinality(EvaluatingAgents(n)) >= 2)
                   => n \in Range(detected_attacks)

\* the run returned the designated node, which one agent started at and
\* the other walked to
C11_Witness ==
    /\ AtDetectionTime
    /\ \E n \in Range(detected_attacks) :
          /\ IsScenarioNode(n)
          /\ \E a \in 1..Len(ants) : ants[a].visited_nodes[1] = n
          /\ \E a \in 1..Len(ants) :
                ants[a].visited_nodes[1] # n /\ ants[a].visited_nodes[2] = n

(* -------------------------------- C12 ---------------------------------- *)
\* x >= k/10 on doubles
FloatAtLeast(x, k) == x[1] > k \/ (x[1] = k /\ x[2] >= 0)

\* a node with a delivery ratio of 0.0 and packetsSent > 35
IsSilentAndBusy(n) ==
    /\ nodes[n].behavior.delivery_ratio[1] = 0
    /\ nodes[n].behavior.packets_sent > 35

\* C12: the score the heuristic accumulates for an evaluated node with a
\* delivery ratio of 0.0 and packetsSent > 35 is >= 0.7, whatever its
\* energy, its neighbor count, the colony size and the random choices.
C12_SilentBusyNodeScores ==
    \A a \in 1..Len(ants) : \A n \in Range(ants[a].visited_nodes) :
        IsSilentAndBusy(n) => FloatAtLeast(SuspiciousnessScore(nodes[n]), 7)

\* in a colony of two an agent has evaluated such a node whose score is
\* 0.4 + 0.3 and no more: 36 packets sent, energy 40, one neighbor
C12_Witness ==
    /\ num_ants = 2
    /\ \E a \in 1..Len(ants) : \E n \in Range(ants[a].visited_nodes) :
          /\ IsSilentAndBusy(n)
          /\ nodes[n].behavior.packets_sent = 36
          /\ nodes[n].has_energy /\ nodes[n].energy = 40
          /\ Cardinality(nodes[n].neighbors) = 1
          /\ SuspiciousnessScore(nodes[n]) = <<7, 0>>

(* -------------------------------- C13 ---------------------------------- *)
\* C13: the delivery ratio of every node has a denominator of at least 1
\* (the division never raises), and the delivery ratio of a node with
\* packetsSent = 0 is 0, in every state network creation, attack injection
\* and traffic simulation reach.
C13_ZeroSentGivesZeroRatio ==
    \A n \in NodeIds :
        /\ nodes[n].behavior.delivery_ratio[2] >= 1
        /\ nodes[n].behavior.packets_sent = 0
              => nodes[n].behavior.delivery_ratio[1] = 0

(* -------------------------------- C14 ---------------------------------- *)
\* some agent holds a vote: detect_attacks would compute vote_threshold
SomeVote == \E a \in 1..Len(ants) : ants[a].suspicious_nodes # <<>>

\* C14: whenever there is a vote to compare with it, voteThreshold is
\* max(2, numAgents // 5), which is >= 2, and no node is returned with
\* fewer votes.
C14_VoteThreshold ==
    LET quorum == IF num_ants \div 5 > 2 THEN num_ants \div 5 ELSE 2
    IN  SomeVote =>
            /\ num_ants >= 1
            /\ VoteThreshold = quorum
            /\ VoteThreshold >= 2
            /\ AtDetectionTime =>
                  \A n \in Range(detected_attacks) : VoteTally(n) >= quorum

\* a colony large enough for numAgents // 5 to exceed 2 has run and its
\* votes have met the threshold
C14_Witness ==
    /\ AtDetectionTime
    /\ num_ants \div 5 > 2
    /\ detected_attacks # <<>>

(* -------------------------------- C15 ---------------------------------- *)
\* C15: an update made while no agent holds a suspicious node leaves
\* every entry at exactly (1 - rho) times its value, which is not negative
\* and not above the value before, and below it when that was positive;
\* for every rho in (0, 1).
C15_EvaporationOnly ==
    [][ (updates' = updates + 1 /\ ~SomeVote) =>
            \A u \in NodeIds : \A v \in NodeIds :
                LET before == pheromone_matrix[u][v]
                    after  == pheromone_matrix'[u][v]
                IN  /\ 10 * after = (10 - rho) * before
                    /\ after >= 0
                    /\ after <= before
                    /\ before > 0 => after < before ]_vars

\* two updates in a row without reinforcement, at rho = 0.5: every entry
\* is a quarter of the initial one
C15_Witness ==
    /\ rho = 5
    /\ runs = 1
    /\ updates = 2
    /\ ~SomeVote
    /\ \A u \in NodeIds : \A v \in NodeIds :
          4 * pheromone_matrix[u][v] = InitialPheromone

(* -------------------------------- C16 ---------------------------------- *)
\* C16: a move extends the agent's trail by its current node and takes the
\* agent to a neighbor of that node that is not among the last three
\* entries of the trail; when there is no such neighbor the agent stays
\* where it is.
C16_MoveToFreshNeighbor ==
    [][ \A a \in 1..num_ants :
            (moves'[a] = moves[a] + 1) =>
                LET current    == ants[a].current_node
                    trail      == ants'[a].visited_nodes
                    lastThree  == {trail[i] : i \in {i \in 1..Len(trail) :
                                                        i > Len(trail) - 3}}
                    candidates == nodes[current].neighbors \ lastThree
                IN  /\ trail = Append(ants[a].visited_nodes, current)
                    /\ candidates # {} => ants'[a].current_node \in candidates
                    /\ candidates = {} => ants'[a].current_node = current ]_vars

\* an agent has walked over four different nodes and is back at the first,
\* which by then is no longer among the last three of its trail
C16_Witness ==
    \E a \in 1..Len(ants) :
        /\ Len(ants[a].visited_nodes) = 4
        /\ Cardinality(Range(ants[a].visited_nodes)) = 4
        /\ ants[a].current_node = ants[a].visited_nodes[1]

\* an agent with no candidate has stayed where it was
C16_WitnessOfStay ==
    \E a \in 1..Len(ants) :
        /\ Len(ants[a].visited_nodes) >= 2
        /\ ants[a].current_node = ants[a].visited_nodes[Len(ants[a].visited_nodes)]
        /\ nodes[ants[a].current_node].neighbors # {}

(* -------------------------------- C17 ---------------------------------- *)
\* the sum of the weights that apply to node n, in tenths
ApplicableWeights(n) ==
    LET b == nodes[n].behavior
    IN  (IF RatioBelow(b.delivery_ratio, 38) THEN 4 ELSE 0)
        + (IF b.packets_sent > 35 /\ RatioBelow(b.delivery_ratio, 28)
           THEN 3 ELSE 0)
        + (IF nodes[n].has_energy /\ nodes[n].energy < 40 THEN 2 ELSE 0)
        + (IF Cardinality(nodes[n].neighbors) > 6 THEN 1 ELSE 0)

ExceedsSuspicionThreshold(n) == ApplicableWeights(n) > 7

\* C17: an agent's suspicious list holds, in order, the nodes it evaluated
\* whose applicable weights sum to more than 0.7; a node whose weights sum
\* to exactly 0.7 (0.4 + 0.3, or 0.4 + 0.2 + 0.1) is not in it.
C17_FlaggedExactlyAboveThreshold ==
    \A a \in 1..Len(ants) :
        ants[a].suspicious_nodes
            = SelectSeq(ants[a].visited_nodes, ExceedsSuspicionThreshold)

(* -------------------------------- C18 ---------------------------------- *)
\* the agent's suspicious set: the distinct nodes it has flagged
SuspiciousSet(ant) == Range(ant.suspicious_nodes)

\* Q times the number of distinct nodes in the suspicious set
SetAmount(ant) == Q * Cardinality(SuspiciousSet(ant)) * Scale

\* what the agent deposits on entry [u][v] when its amount is SetAmount and
\* the neighborhood deposit is applied once for each node of its set
SetDeposit(ant, u, v) ==
    SetAmount(ant) * PathDeposits(ant, u, v)
    + (IF u \in SuspiciousSet(ant) /\ v \in nodes[u].neighbors
       THEN SetAmount(ant) \div 2 ELSE 0)

RECURSIVE SetDeposition(_, _, _)
SetDeposition(k, u, v) ==
    IF k = 0 THEN 0 ELSE SetDeposition(k - 1, u, v) + SetDeposit(ants[k], u, v)

\* C18: in every pheromone update each agent deposits with the amount
\* Q * (number of distinct nodes in its suspicious set), and applies the
\* neighborhood deposit once for each of those nodes, however often it
\* has flagged them.
C18_DepositCountsDistinctNodes ==
    [][ (updates' = updates + 1) =>
            \A u \in NodeIds : \A v \in NodeIds :
                pheromone_matrix'[u][v]
                    = Evaporate(pheromone_matrix[u][v])
                      + SetDeposition(Len(ants), u, v) ]_vars

(* -------------------------------- C19 ---------------------------------- *)
\* entry [u][v] may receive an addition from the agent
MayReinforce(ant, u, v) ==
    /\ ant.suspicious_nodes # <<>>
    /\ \/ /\ v \in Range(ant.suspicious_nodes)
          /\ \E i \in 1..(Len(ant.visited_nodes) - 1) :
                ant.visited_nodes[i] = u /\ ant.visited_nodes[i + 1] = v
       \/ /\ u \in Range(ant.suspicious_nodes)
          /\ v \in nodes[u].neighbors

\* C19: an update leaves every entry at (1 - rho) times its value or
\* above; it is above only where, for some agent with a non-empty
\* suspicious list, (u, v) is a consecutive pair of the trail with v in the
\* list, or u is in the list and v a neighbor of u; and the update leaves
\* the agents' trails, suspicious lists and positions as they are.
C19_UpdateEvaporatesThenAdds ==
    [][ (updates' = updates + 1) =>
            /\ ants' = ants
            /\ \A u \in NodeIds : \A v \in NodeIds :
                  LET before == pheromone_matrix[u][v]
                      after  == pheromone_matrix'[u][v]
                  IN  /\ 10 * after >= (10 - rho) * before
                      /\ 10 * after > (10 - rho) * before
                            => \E a \in 1..Len(ants) : MayReinforce(ants[a], u, v)
      ]_vars

\* after the second update of a run the entry of a link an agent walked
\* from an unsuspicious node to a flagged one has been reinforced and the
\* diagonal entry of the unsuspicious node has only evaporated, twice
C19_Witness ==
    /\ runs = 1
    /\ updates = 2
    /\ \E u \in NodeIds : \E v \in NodeIds \ {u} :
          /\ \E a \in 1..Len(ants) :
                /\ ants[a].visited_nodes = <<u, v>>
                /\ ants[a].suspicious_nodes = <<v>>
          /\ pheromone_matrix[u][v] > InitialPheromone
          /\ 100 * pheromone_matrix[u][u]
                = (10 - rho) * (10 - rho) * InitialPheromone

(* -------------------------------- C20 ---------------------------------- *)
\* C20: in every state network creation, sinkhole injection and traffic
\* simulation reach, the delivery ratio of every node lies in [0, 1]:
\* packetsReceived is not negative and not above max(packetsSent, 1).
C20_DeliveryRatioInUnitInterval ==
    \A n \in NodeIds :
        LET ratio == nodes[n].behavior.delivery_ratio
        IN  /\ ratio[2] > 0
            /\ ratio[1] >= 0
            /\ ratio[1] <= ratio[2]

(* -------------------------------- C21 ---------------------------------- *)
\* all iterations of a run of at least one iteration are over
AfterIterations ==
    /\ pc \in {"detect", "done"}
    /\ iterations >= 1

\* C21: once the iterations of a run of at least one iteration are over,
\* every node with at least one vote and at least one neighbor has an entry
\* of at least 0.5 * Q from itself to each of its neighbors, hence a
\* pheromone row maximum of at least 7.0.
C21_VotedNodeHasPheromone ==
    AfterIterations =>
        \A n \in NodeIds :
            (VoteTally(n) >= 1 /\ nodes[n].neighbors # {}) =>
                /\ \A v \in nodes[n].neighbors :
                      2 * pheromone_matrix[n][v] >= Q * Scale
                /\ MaxPheromone(n) >= PheromoneThreshold * Scale

\* a run has returned in which an agent flagged a node with a neighbor in
\* the last iteration only, so that a single update followed the flag
C21_Witness ==
    /\ pc = "done"
    /\ iterations >= 2
    /\ \E a \in 1..Len(ants) : \E n \in NodeIds :
          /\ nodes[n].neighbors # {}
          /\ ants[a].suspicious_nodes = <<n>>
          /\ Len(ants[a].visited_nodes) = iterations
          /\ ants[a].visited_nodes[iterations] = n
          /\ VoteTally(n) = 1

(* -------------------------------- C22 ---------------------------------- *)
\* the trail is a walk with stutters
WalkWithStutters(trail) ==
    \A i \in 1..(Len(trail) - 1) :
        trail[i + 1] \in nodes[trail[i]].neighbors \/ trail[i + 1] = trail[i]

\* the trail after the step is the trail before it, or that with one entry
\* more
ExtendedByAtMostOne(before, after) ==
    \/ after = before
    \/ /\ Len(after) = Len(before) + 1
       /\ SubSeq(after, 1, Len(before)) = before

\* C22: within a run every agent's trail is only ever appended to and has
\* one entry per call of ant_movement (one per iteration); consecutive
\* entries are linked or equal; every node of the agent's suspicious list
\* is in its trail; the trail loop adds only to entries of links and of the
\* diagonal, and an update only evaporates every other entry.
C22_TrailIsWalkWithStutters ==
    /\ [](\A a \in 1..Len(ants) :
            /\ Len(ants[a].visited_nodes) = moves[a]
            /\ pc = "update" => Len(ants[a].visited_nodes) = iteration + 1
            /\ WalkWithStutters(ants[a].visited_nodes)
            /\ Range(ants[a].suspicious_nodes) \subseteq Range(ants[a].visited_nodes)
            /\ \A u \in NodeIds : \A v \in NodeIds :
                  PathDeposits(ants[a], u, v) > 0
                      => (v \in nodes[u].neighbors \/ v = u))
    /\ [][ /\ runs' = runs =>
                \A a \in 1..Len(ants) :
                    /\ ExtendedByAtMostOne(ants[a].visited_nodes,
                                           ants'[a].visited_nodes)
                    /\ moves'[a] = moves[a] + 1 =>
                          Len(ants'[a].visited_nodes)
                              = Len(ants[a].visited_nodes) + 1
            /\ updates' = updates + 1 =>
                \A u \in NodeIds : \A v \in NodeIds \ {u} :
                    v \notin nodes[u].neighbors =>
                        pheromone_matrix'[u][v] = Evaporate(pheromone_matrix[u][v])
          ]_vars

\* an agent has walked a link to a node it flagged there, and the trail
\* loop has reinforced the entry of that link beyond what the neighbor loop
\* gives the opposite entry
C22_Witness ==
    /\ pc = "done"
    /\ \E a \in 1..Len(ants) :
          LET trail == ants[a].visited_nodes
          IN  /\ Len(trail) = 2
              /\ trail[2] \in nodes[trail[1]].neighbors
              /\ ants[a].suspicious_nodes = <<trail[2]>>
              /\ PathDeposits(ants[a], trail[1], trail[2]) = 1
              /\ pheromone_matrix[trail[1]][trail[2]]
                    > pheromone_matrix[trail[2]][trail[1]]

\* an agent without a candidate has stayed at a node it flags, and the
\* trail loop has reinforced the diagonal entry of that node
C22_WitnessOfStutter ==
    \E a \in 1..Len(ants) :
        LET trail == ants[a].visited_nodes
        IN  /\ Len(trail) = 2
            /\ trail[2] = trail[1]
            /\ PathDeposits(ants[a], trail[1], trail[1]) = 1
            /\ updates = 2
            /\ pheromone_matrix[trail[1]][trail[1]] > InitialPheromone

====
